---- MODULE Spec2Model ----
(***************************************************************************)
(* Well-cementing application: the pump queue controller and the fluid     *)
(* transport engine of App (src/unnamed/part_000 and src/src/App.jsx),     *)
(* driven through the Sidebar (src/src/components/Sidebar.jsx).            *)
(*                                                                         *)
(* Volumes are fixed-point numbers: one unit is 1e-6 bbl.  Diameters are   *)
(* whole inches and lengths whole metres, as typed into the number inputs. *)
(* Every value the model handles is a whole number of units, so the        *)
(* source's tolerance of 1e-9 bbl is below one unit: on such values        *)
(* x <= y + 1e-9 is x <= y, which is what EPS == 0 states.                 *)
(*                                                                         *)
(* React scheduling: a state setter called from an event handler, a timer  *)
(* callback or a promise continuation re-renders and runs the effects      *)
(* whose dependencies changed before the next timer callback fires (the    *)
(* shortest timer of the code is 20 ms), so every action below includes    *)
(* the effects its state updates trigger.                                  *)
(***************************************************************************)
EXTENDS Integers, Sequences, FiniteSets, TLC

\* ---------------------------------------------------------------- bounds
\* longest parcel sequence handed to a compression helper called on its own
MaxLen == 3

\* most casings, and most drill pipes, of a geometry handed to calculateVolumes
MaxEntries == 2

\* how many Sidebar operations (add pipe, edit pipe, delete pipe, add fluid,
\* reset fluids) one behaviour performs; timer ticks are not counted
MaxOps == 4

\* How many ticks the updater is applied for when it is called on its own
MaxTicks == 3

\* How many times pumpFluids is called, each time on what it returned
MaxPumps == 3

\* ------------------------------------------------------------- constants
Micro == 1000000
K == 3187
Rate == 5000000
EPS == 0

VARIABLES
    variant,      \* which App source runs: "part_000" or "App"
    geometry,     \* App state geometry.drillPipes: sequence of [od, id, length]
    fluidState,   \* App state fluidState: [dp, annulus]
    fluidsQueue,  \* App state fluidsQueue: sequence of [type, volume, rid]
    drivers,      \* live setInterval timers of animateFluid, next to fire first
    crashed,      \* a state updater threw: React unmounted the tree
    requests,     \* history: every request handed to handleAddFluid, by rid
    injected,     \* history: volume each request's ticks put into the ledger
    ops,          \* history: how many Sidebar operations so far
    resetAt,      \* history: Len(requests) at the last reset, -1 before any
    editAt,       \* history: Len(requests) at the last geometry edit
    reshapeAt,    \* history: Len(requests) at the last change of pipe count
    last,         \* history: the operation that produced this state
    arg,          \* the argument of a helper function called on its own
    result        \* what that call returned: [fn, value, ...]

vars == <<variant, geometry, fluidState, fluidsQueue, drivers, crashed,
          requests, injected, ops, resetAt, editAt, reshapeAt, last,
          arg, result>>

\* ------------------------------------------------------------ text input
\* The content of an <input type="number">: empty, or a decimal integer.
Digits == {"0", "1", "2", "3", "4", "5", "6", "7", "8", "9"}

DigitValue(c) ==
    CASE c = "0" -> 0 [] c = "1" -> 1 [] c = "2" -> 2 [] c = "3" -> 3
      [] c = "4" -> 4 [] c = "5" -> 5 [] c = "6" -> 6 [] c = "7" -> 7
      [] c = "8" -> 8 [] c = "9" -> 9

RECURSIVE ParseDigits(_, _)
ParseDigits(text, acc) ==
    IF text = <<>> \/ Head(text) \notin Digits THEN acc
    ELSE ParseDigits(Tail(text), 10 * acc + DigitValue(Head(text)))

\* parseFloat / unary plus on the text of a number input that holds a number
ParseFloat(text) ==
    IF text # <<>> /\ Head(text) = "-" THEN 0 - ParseDigits(Tail(text), 0)
    ELSE ParseDigits(text, 0)

\* JavaScript truthiness of a string: only the empty string is falsy
Truthy(text) == text # <<>>

\* ---------------------------------------------------------------- parcels
RECURSIVE SumVolumes(_)
SumVolumes(segs) ==
    IF segs = <<>> THEN 0 ELSE Head(segs).volume + SumVolumes(Tail(segs))

\* dp.id ** 2 * (dp.length || 0) * K
DpVol(dp) == dp.id * dp.id * dp.length * K

RECURSIVE CompressLoop(_, _)
CompressLoop(segs, out) ==
    IF segs = <<>> THEN out
    ELSE LET seg == Head(segs)
         IN  IF out # <<>> /\ out[Len(out)].type = seg.type
             THEN CompressLoop(Tail(segs),
                      [out EXCEPT ![Len(out)].volume = @ + seg.volume])
             ELSE CompressLoop(Tail(segs),
                      Append(out, [type |-> seg.type, volume |-> seg.volume]))

\* mutant of compressSegmentsTopToBottom: a parcel is merged into the first
\* parcel of the output whenever that one has its type
RECURSIVE CompressIntoFirst(_, _)
CompressIntoFirst(segs, out) ==
    IF segs = <<>> THEN out
    ELSE LET seg == Head(segs)
         IN  IF out # <<>> /\ out[1].type = seg.type
             THEN CompressIntoFirst(Tail(segs),
                      [out EXCEPT ![1].volume = @ + seg.volume])
             ELSE CompressIntoFirst(Tail(segs),
                      Append(out, [type |-> seg.type, volume |-> seg.volume]))

compressSegmentsIntoFirst(pipeArr) == CompressIntoFirst(pipeArr, <<>>)

compressSegmentsTopToBottom(pipeArr) == CompressLoop(pipeArr, <<>>)

compressSegmentsBottomToTop(ann) == CompressLoop(ann, <<>>)

\* ------------------------------------------- transport engine, part_000
Seg(type, volume) == [type |-> type, volume |-> volume]

\* mutant of pushSegmentToPipeTop: the segment is put at the bottom of the pipe
pushSegmentToPipeBottom(dpArray, pipeIndex, segment) ==
    LET arr == IF pipeIndex <= Len(dpArray) THEN dpArray[pipeIndex] ELSE <<>>
        pushed == Append(arr, Seg(segment.type, segment.volume))
    IN  IF pipeIndex <= Len(dpArray)
        THEN [dpArray EXCEPT ![pipeIndex] = pushed]
        ELSE Append(dpArray, pushed)

\* Pipes are numbered from 1 here: pipeIndex is the source's index plus one.
pushSegmentToPipeTop(dpArray, pipeIndex, segment) ==
    LET arr == IF pipeIndex <= Len(dpArray) THEN dpArray[pipeIndex] ELSE <<>>
        pushed == IF arr # <<>> /\ arr[1].type = segment.type
                  THEN [arr EXCEPT ![1].volume = @ + segment.volume]
                  ELSE <<Seg(segment.type, segment.volume)>> \o arr
    IN  IF pipeIndex <= Len(dpArray)
        THEN [dpArray EXCEPT ![pipeIndex] = pushed]
        ELSE Append(dpArray, pushed)

\* mutant of PopOverflow: the overflow is taken from the top of the pipe
RECURSIVE PopOverflowFromTop(_, _, _)
PopOverflowFromTop(pipe, overflow, poppedSegments) ==
    IF ~(overflow > EPS /\ Len(pipe) > 0)
    THEN [pipe |-> pipe, popped |-> poppedSegments]
    ELSE LET first == pipe[1]
         IN  IF first.volume > overflow + EPS
             THEN [pipe |-> [pipe EXCEPT ![1].volume = @ - overflow],
                   popped |-> Append(poppedSegments, Seg(first.type, overflow))]
             ELSE PopOverflowFromTop(Tail(pipe), overflow - first.volume,
                                     Append(poppedSegments,
                                            Seg(first.type, first.volume)))

\* mutant of PopOverflow: the bottom segment is never split, it is always
\* taken whole
RECURSIVE PopOverflowWhole(_, _, _)
PopOverflowWhole(pipe, overflow, poppedSegments) ==
    IF ~(overflow > EPS /\ Len(pipe) > 0)
    THEN [pipe |-> pipe, popped |-> poppedSegments]
    ELSE LET lastSeg == pipe[Len(pipe)]
         IN  PopOverflowWhole(SubSeq(pipe, 1, Len(pipe) - 1),
                              overflow - lastSeg.volume,
                              Append(poppedSegments,
                                     Seg(lastSeg.type, lastSeg.volume)))

\* while (overflow > 1e-9 && newDP[idx].length > 0) { split | take whole }
RECURSIVE PopOverflow(_, _, _)
PopOverflow(pipe, overflow, poppedSegments) ==
    IF ~(overflow > EPS /\ Len(pipe) > 0)
    THEN [pipe |-> pipe, popped |-> poppedSegments]
    ELSE LET lastSeg == pipe[Len(pipe)]
         IN  IF lastSeg.volume > overflow + EPS
             THEN [pipe |-> [pipe EXCEPT ![Len(pipe)].volume = @ - overflow],
                   popped |-> Append(poppedSegments, Seg(lastSeg.type, overflow))]
             ELSE PopOverflow(SubSeq(pipe, 1, Len(pipe) - 1),
                              overflow - lastSeg.volume,
                              Append(poppedSegments,
                                     Seg(lastSeg.type, lastSeg.volume)))

\* mutant of MoveToNextPipe: the popped segments enter the next pipe in the
\* opposite order (the last popped first)
RECURSIVE MoveToNextPipeReversed(_, _, _)
MoveToNextPipeReversed(dpArray, pipeIndex, poppedSegments) ==
    IF poppedSegments = <<>> THEN dpArray
    ELSE pushSegmentToPipeTop(
             MoveToNextPipeReversed(dpArray, pipeIndex, Tail(poppedSegments)),
             pipeIndex, Head(poppedSegments))

\* for (const seg of poppedSegments) pushSegmentToPipeTop(newDP, idx + 1, seg)
RECURSIVE MoveToNextPipe(_, _, _)
MoveToNextPipe(dpArray, pipeIndex, poppedSegments) ==
    IF poppedSegments = <<>> THEN dpArray
    ELSE MoveToNextPipe(
             pushSegmentToPipeTop(dpArray, pipeIndex, Head(poppedSegments)),
             pipeIndex, Tail(poppedSegments))

\* mutant of MoveToAnnulus: what leaves the last pipe is not recorded
MoveToAnnulusLost(newAnn, poppedSegments) == newAnn

\* for (const seg of poppedSegments) newAnn.push(seg)
MoveToAnnulus(newAnn, poppedSegments) == newAnn \o poppedSegments

Max(a, b) == IF a >= b THEN a ELSE b

\* The overflow loop over idx of the captured geometry.  st.threw records the
\* TypeError of newDP[idx].reduce on a pipe the ledger does not have; st.toPipe
\* and st.toAnn record the length of poppedSegments (the longest moved from a
\* pipe to the next, and the one moved to the annulus).
RECURSIVE Cascade(_, _, _)
Cascade(st, idx, pipes) ==
    IF idx > Len(pipes) \/ st.threw THEN st
    ELSE IF idx > Len(st.dp) THEN [st EXCEPT !.threw = TRUE]
    ELSE LET dpVol == DpVol(pipes[idx])
             used == SumVolumes(st.dp[idx])
         IN  IF used <= dpVol + EPS THEN Cascade(st, idx + 1, pipes)
             ELSE LET r == PopOverflow(st.dp[idx], used - dpVol, <<>>)
                      kept == [st.dp EXCEPT ![idx] = r.pipe]
                  IN  IF idx < Len(pipes)
                      THEN Cascade([st EXCEPT
                                      !.dp = MoveToNextPipe(kept, idx + 1, r.popped),
                                      !.toPipe = Max(@, Len(r.popped))],
                                   idx + 1, pipes)
                      ELSE Cascade([st EXCEPT
                                      !.dp = kept,
                                      !.ann = MoveToAnnulus(st.ann, r.popped),
                                      !.toAnn = Len(r.popped)],
                                   idx + 1, pipes)

\* The setFluidState updater of one interval tick.  It works on copies of the
\* arrays and of every segment of prev (newDP, newAnn), so the object prev is
\* after the call what it was before.
TickUpdater(prev, pipes, type, step) ==
    LET newDP == pushSegmentToPipeTop(prev.dp, 1, Seg(type, step))
        st == Cascade([dp |-> newDP, ann |-> prev.annulus,
                       threw |-> FALSE, toPipe |-> 0, toAnn |-> 0], 1, pipes)
    IN  [threw |-> st.threw, toPipe |-> st.toPipe, toAnn |-> st.toAnn,
         state |-> [dp |-> [pi \in 1..Len(st.dp) |->
                               compressSegmentsTopToBottom(st.dp[pi])],
                    annulus |-> compressSegmentsBottomToTop(st.ann)],
         after |-> prev]

\* The setFluidState updater of animateFluid when there is no drill pipe
DepositUpdater(prev, type, totalVolume) ==
    [dp |-> prev.dp,
     annulus |-> compressSegmentsBottomToTop(
                     Append(prev.annulus, Seg(type, totalVolume)))]

\* ---------------------------------------- transport engine, src/src/App.jsx
\* while (overflow > 1e-9 && newDp[i].length > 0) of the rebalance loop.
\* st.acc is prev._annulusOverflow and st.wrote tells whether the updater has
\* assigned it; st.threw records the TypeError of newDp[i + 1].unshift on a
\* pipe the ledger does not have.
RECURSIVE AppMoveOverflow(_, _, _, _)
AppMoveOverflow(st, i, n, overflow) ==
    IF st.threw \/ ~(overflow > EPS /\ Len(st.dp[i]) > 0) THEN st
    ELSE LET pipe == st.dp[i]
             bottomParcel == pipe[Len(pipe)]
             bottomVol == bottomParcel.volume
             rest == SubSeq(pipe, 1, Len(pipe) - 1)
             whole == bottomVol <= overflow + EPS
             moved == IF whole THEN bottomVol ELSE overflow
             left == IF whole THEN rest
                     ELSE Append(rest, Seg(bottomParcel.type, bottomVol - overflow))
             after == IF whole THEN overflow - moved ELSE 0
         IN  IF i < n
             THEN IF i + 1 > Len(st.dp) THEN [st EXCEPT !.threw = TRUE]
                  ELSE AppMoveOverflow(
                           [st EXCEPT !.dp[i] = left,
                                      !.dp[i + 1] = <<Seg(bottomParcel.type, moved)>> \o @],
                           i, n, after)
             ELSE AppMoveOverflow(
                      [st EXCEPT !.dp[i] = left, !.acc = @ + moved,
                                 !.wrote = TRUE],
                      i, n, after)

\* for (let i = 0; i < n; i++) of the rebalance loop
RECURSIVE AppRebalance(_, _, _)
AppRebalance(st, i, pipes) ==
    IF i > Len(pipes) \/ st.threw THEN st
    ELSE IF i > Len(st.dp) THEN [st EXCEPT !.threw = TRUE]
    ELSE LET dpVol == DpVol(pipes[i])
             used == SumVolumes(st.dp[i])
         IN  IF used <= dpVol + EPS THEN AppRebalance(st, i + 1, pipes)
             ELSE AppRebalance(
                      AppMoveOverflow(st, i, Len(pipes), used - dpVol),
                      i + 1, pipes)

\* prev._annulusOverflow || 0: the property is absent from a ledger object
\* that no updater has written to
AnnulusOverflowOf(prev) ==
    IF "_annulusOverflow" \in DOMAIN prev THEN prev._annulusOverflow ELSE 0

\* The setFluidState updater of one interval tick, src/src/App.jsx.  after is
\* the object prev as the updater leaves it: the same dp and annulus arrays,
\* and the property _annulusOverflow once the updater has assigned it.
AppTickUpdater(prev, pipes, type, step) ==
    IF Len(prev.dp) = 0
    THEN [threw |-> TRUE, toPipe |-> 0, toAnn |-> 0, state |-> prev,
          after |-> prev]
    ELSE LET newDp == [prev.dp EXCEPT ![1] = <<Seg(type, step)>> \o @]
             st == AppRebalance([dp |-> newDp, acc |-> AnnulusOverflowOf(prev),
                                 wrote |-> FALSE, threw |-> FALSE],
                                1, pipes)
             newAnn == IF st.acc > 0
                       THEN <<Seg(type, st.acc)>> \o prev.annulus
                       ELSE prev.annulus
         IN  [threw |-> st.threw, toPipe |-> 0, toAnn |-> 0,
              state |-> [dp |-> st.dp, annulus |-> newAnn],
              after |-> IF st.wrote
                        THEN [dp |-> prev.dp, annulus |-> prev.annulus,
                              _annulusOverflow |->
                                  IF st.acc > 0 THEN 0 ELSE st.acc]
                        ELSE prev]

\* The setFluidState updater of animateFluid when there is no drill pipe
AppDepositUpdater(prev, type, remaining) ==
    [dp |-> prev.dp, annulus |-> <<Seg(type, remaining)>> \o prev.annulus]

\* ------------------------------------------------------- queue controller
Driver(req, pipes) ==
    [rid |-> req.rid, type |-> req.type, remaining |-> req.volume,
     pipes |-> pipes]

\* animateFluid resolves without a timer: part_000 only when no drill pipe
\* exists; App.jsx also when !totalVolume || totalVolume <= 0
ResolvesAtOnce(v, req, pipes) ==
    \/ Len(pipes) = 0
    \/ v = "App" /\ req.volume <= 0

DepositAtOnce(v, prev, req) ==
    IF v = "App"
    THEN IF req.volume <= 0 THEN prev
         ELSE AppDepositUpdater(prev, req.type, req.volume)
    ELSE DepositUpdater(prev, req.type, req.volume)

\* The queue useEffect: runQueue takes fluidsQueue[0] of this render and awaits
\* animateFluid; when that has resolved it calls setFluidsQueue(q => q.slice(1)),
\* which re-renders, cancels this runQueue and runs the effect again.
RECURSIVE RunQueueEffect(_, _, _, _, _)
RunQueueEffect(v, q, fs, inj, pipes) ==
    IF q = <<>>
    THEN [queue |-> q, fluidState |-> fs, injected |-> inj, started |-> <<>>]
    ELSE LET next == q[1]
         IN  IF ResolvesAtOnce(v, next, pipes)
             THEN RunQueueEffect(v, Tail(q), DepositAtOnce(v, fs, next),
                      IF v = "App" /\ next.volume <= 0 THEN inj
                      ELSE [inj EXCEPT ![next.rid] = @ + next.volume],
                      pipes)
             ELSE [queue |-> q, fluidState |-> fs, injected |-> inj,
                   started |-> <<Driver(next, pipes)>>]

\* The reshape useEffect, run when geometry.drillPipes.length changed
ReshapeEffect(prev, n) ==
    IF Len(prev.dp) = n THEN prev
    ELSE [dp |-> [i \in 1..n |-> <<>>], annulus |-> <<>>]

\* ----------------------------------------------------------------- inputs
\* What the fluid row holds when Add Fluid is clicked: the <select> value and
\* the text of the volume input
FluidInputs ==
    {[type |-> "", volume |-> <<"7">>],
     [type |-> "Cement", volume |-> <<>>],
     [type |-> "Cement", volume |-> <<"7">>],
     [type |-> "Spacer", volume |-> <<"7">>],
     [type |-> "Cement", volume |-> <<"0">>],
     [type |-> "Spacer", volume |-> <<"-", "3">>]}

\* What the new-pipe row holds when Add Pipes is clicked
NewDPTexts ==
    {[od |-> <<"5">>, id |-> <<"4">>, length |-> <<"1", "0", "0">>],
     [od |-> <<"5">>, id |-> <<"4">>, length |-> <<>>]}

\* What is typed into a cell of an existing pipe's row
UpdateFields == {"length"}

UpdateTexts == {<<>>, <<"5", "0">>}

\* ------------------------------------------------------------------ state
Last(op, rid, step, n, toPipe, toAnn) ==
    [op |-> op, rid |-> rid, step |-> step, n |-> n, toPipe |-> toPipe,
     toAnn |-> toAnn]

EmptyLedger(n) == [dp |-> [i \in 1..n |-> <<>>], annulus |-> <<>>]

InitCommon ==
    /\ geometry = <<>>
    /\ fluidState = [dp |-> <<>>, annulus |-> <<>>]
    /\ fluidsQueue = <<>>
    /\ drivers = <<>>
    /\ crashed = FALSE
    /\ requests = <<>>
    /\ injected = <<>>
    /\ ops = 0
    /\ resetAt = -1
    /\ editAt = 0
    /\ reshapeAt = 0
    /\ last = Last("init", 0, 0, 0, 0, 0)

\* no helper function is called on its own while the App runs
NoResult == [fn |-> "", calls |-> 0]

NoCall == arg = <<>> /\ result = NoResult

Init == variant = "part_000" /\ InitCommon /\ NoCall

InitApp == variant = "App" /\ InitCommon /\ NoCall

RemoveAt(s, i) == SubSeq(s, 1, i - 1) \o SubSeq(s, i + 1, Len(s))

\* ------------------------------------------------- Sidebar: fluids controls
\* handleAddFluidClick, then App's handleAddFluid and the queue effect
HandleAddFluidClick(type, text) ==
    /\ ~crashed
    /\ \/ /\ ~(type # "") \/ ~Truthy(text)
          /\ UNCHANGED vars
       \/ /\ type # "" /\ Truthy(text)
          /\ ops < MaxOps
          /\ LET rid == Len(requests) + 1
                 f == [type |-> type, volume |-> ParseFloat(text) * Micro,
                       rid |-> rid]
                 eff == RunQueueEffect(variant, Append(fluidsQueue, f),
                            fluidState, Append(injected, 0), geometry)
             IN  /\ requests' = Append(requests, f)
                 /\ fluidsQueue' = eff.queue
                 /\ fluidState' = eff.fluidState
                 /\ injected' = eff.injected
                 /\ drivers' = drivers \o eff.started
                 /\ last' = Last("add", rid, 0, Len(geometry), 0, 0)
          /\ ops' = ops + 1
          /\ UNCHANGED <<arg, result, variant, geometry, crashed, resetAt, editAt,
                         reshapeAt>>

\* handleResetFluids
HandleResetFluids ==
    /\ ~crashed
    /\ ops < MaxOps
    /\ fluidState' = EmptyLedger(Len(geometry))
    /\ fluidsQueue' = <<>>
    /\ ops' = ops + 1
    /\ last' = Last("reset", 0, 0, Len(geometry), 0, 0)
    /\ resetAt' = Len(requests)
    /\ UNCHANGED <<arg, result, variant, geometry, drivers, crashed, requests, injected,
                   editAt, reshapeAt>>

\* ------------------------------------------------------- interval callback
\* Every animateFluid timer is a setInterval of the same 80 ms, so the live
\* timers fire in rotation, in the order in which they were started: the
\* timer at the head of drivers fires next and goes to the back, and a timer
\* started now fires after every timer that is already live.
Step(d) == IF d.remaining <= Rate THEN d.remaining ELSE Rate

Updated(d) ==
    IF variant = "App"
    THEN AppTickUpdater(fluidState, d.pipes, d.type, Step(d))
    ELSE TickUpdater(fluidState, d.pipes, d.type, Step(d))

\* remaining > 0: inject one step
TickInject ==
    /\ ~crashed
    /\ drivers # <<>>
    /\ LET d == drivers[1]
           r == Updated(d)
       IN  /\ d.remaining > 0
           /\ ~r.threw
           /\ fluidState' = r.state
           /\ drivers' = Append(Tail(drivers),
                                 [d EXCEPT !.remaining = @ - Step(d)])
           /\ injected' = [injected EXCEPT ![d.rid] = @ + Step(d)]
           /\ last' = Last("tick", d.rid, Step(d), Len(d.pipes), r.toPipe,
                        r.toAnn)
    /\ UNCHANGED <<arg, result, variant, geometry, fluidsQueue, crashed, requests, ops,
                   resetAt, editAt, reshapeAt>>

\* remaining > 0 and the updater throws: the component tree is unmounted
TickThrow ==
    /\ ~crashed
    /\ drivers # <<>>
    /\ LET d == drivers[1]
           r == Updated(d)
       IN  /\ d.remaining > 0
           /\ r.threw
           /\ drivers' = Append(Tail(drivers),
                                 [d EXCEPT !.remaining = @ - Step(d)])
           /\ last' = Last("throw", d.rid, Step(d), Len(d.pipes), 0, 0)
    /\ crashed' = TRUE
    /\ UNCHANGED <<arg, result, variant, geometry, fluidState, fluidsQueue, requests,
                   injected, ops, resetAt, editAt, reshapeAt>>

\* remaining <= 0: clearInterval, resolve; runQueue pops the head of the queue
TickFinish ==
    /\ ~crashed
    /\ drivers # <<>>
    /\ LET d == drivers[1]
           sliced == IF fluidsQueue = <<>> THEN <<>> ELSE Tail(fluidsQueue)
           eff == RunQueueEffect(variant, sliced, fluidState, injected,
                                 geometry)
       IN  /\ d.remaining <= 0
           /\ fluidsQueue' = eff.queue
           /\ fluidState' = eff.fluidState
           /\ injected' = eff.injected
           /\ drivers' = Tail(drivers) \o eff.started
           /\ last' = Last("finish", d.rid, 0, Len(d.pipes), 0, 0)
    /\ UNCHANGED <<arg, result, variant, geometry, crashed, requests, ops, resetAt,
                   editAt, reshapeAt>>

\* ---------------------------------------------- Sidebar: drill pipe editor
\* The Sidebar effect hands the new drillPipes to setGeometry; App re-renders,
\* the reshape effect runs when the number of pipes changed, and in App.jsx
\* the queue effect runs again because geometry is one of its dependencies.
GeometryUpdated(newPipes, op) ==
    LET reshaped == IF Len(newPipes) # Len(geometry)
                    THEN ReshapeEffect(fluidState, Len(newPipes))
                    ELSE fluidState
        eff == IF variant = "App"
               THEN RunQueueEffect(variant, fluidsQueue, reshaped, injected,
                                   newPipes)
               ELSE [queue |-> fluidsQueue, fluidState |-> reshaped,
                     injected |-> injected, started |-> <<>>]
    IN  /\ geometry' = newPipes
        /\ fluidState' = eff.fluidState
        /\ fluidsQueue' = eff.queue
        /\ injected' = eff.injected
        /\ drivers' = drivers \o eff.started
        /\ ops' = ops + 1
        /\ editAt' = Len(requests)
        /\ reshapeAt' = IF Len(newPipes) # Len(geometry) THEN Len(requests)
                        ELSE reshapeAt
        /\ last' = Last(op, 0, 0, Len(newPipes), 0, 0)
        /\ UNCHANGED <<arg, result, variant, crashed, requests, resetAt>>

addDP(newDP) ==
    /\ ~crashed
    /\ \/ /\ ~Truthy(newDP.od) \/ ~Truthy(newDP.id) \/ ~Truthy(newDP.length)
          /\ UNCHANGED vars
       \/ /\ Truthy(newDP.od) /\ Truthy(newDP.id) /\ Truthy(newDP.length)
          /\ ops < MaxOps
          /\ GeometryUpdated(
                 Append(geometry, [od |-> ParseFloat(newDP.od),
                                   id |-> ParseFloat(newDP.id),
                                   length |-> ParseFloat(newDP.length)]),
                 "addDP")

\* parseFloat(value) || 0
ParseOrZero(value) == IF value = <<>> THEN 0 ELSE ParseFloat(value)

updateDP(idx, field, value) ==
    /\ ~crashed
    /\ idx \in 1..Len(geometry)
    /\ ops < MaxOps
    /\ GeometryUpdated(
           [geometry EXCEPT ![idx] = [@ EXCEPT ![field] = ParseOrZero(value)]],
           "updateDP")

deleteDP(idx) ==
    /\ ~crashed
    /\ idx \in 1..Len(geometry)
    /\ ops < MaxOps
    /\ GeometryUpdated(RemoveAt(geometry, idx), "deleteDP")

\* ------------------------------------------------------------ specification
Next ==
    \/ \E newFluid \in FluidInputs :
           HandleAddFluidClick(newFluid.type, newFluid.volume)
    \/ HandleResetFluids
    \/ TickInject
    \/ TickThrow
    \/ TickFinish
    \/ \E newDP \in NewDPTexts : addDP(newDP)
    \/ \E idx \in DOMAIN geometry, field \in UpdateFields, value \in UpdateTexts :
           updateDP(idx, field, value)
    \/ \E idx \in DOMAIN geometry : deleteDP(idx)

Spec == Init /\ [][Next]_vars

SpecApp == InitApp /\ [][Next]_vars

\* --------------------------------------------- one request after the other
\* Drill pipes of the end-to-end scenarios.  K is irrational, so no pipe has a
\* capacity of exactly 20 or 10 bbl: with id 4 in, 392 m hold 19.988864 bbl
\* and 196 m hold 9.994432 bbl.
Pipe20 == [od |-> 5, id |-> 4, length |-> 392]

Pipe10 == [od |-> 5, id |-> 4, length |-> 196]

ScenarioGeometries == {<<Pipe20>>, <<Pipe10, Pipe10>>}

ScenarioFluids ==
    {[type |-> "Cement", volume |-> <<"2", "5">>],
     [type |-> "Cement", volume |-> <<"8">>],
     [type |-> "Spacer", volume |-> <<"8">>]}

\* The App after the pipes of a scenario were added: the reshape effect has
\* given the ledger one empty sequence per pipe
InitSeq ==
    /\ variant = "part_000"
    /\ geometry \in ScenarioGeometries
    /\ fluidState = EmptyLedger(Len(geometry))
    /\ fluidsQueue = <<>>
    /\ drivers = <<>>
    /\ crashed = FALSE
    /\ requests = <<>>
    /\ injected = <<>>
    /\ ops = 0
    /\ resetAt = -1
    /\ editAt = 0
    /\ reshapeAt = 0
    /\ last = Last("init", 0, 0, Len(geometry), 0, 0)
    /\ NoCall

\* Add Fluid clicked only when the previous request has been pumped to
\* completion
PumpWhenIdle ==
    /\ fluidsQueue = <<>>
    /\ drivers = <<>>
    /\ \E newFluid \in ScenarioFluids :
           HandleAddFluidClick(newFluid.type, newFluid.volume)

NextSeq ==
    \/ PumpWhenIdle
    \/ TickInject
    \/ TickFinish

SpecSeq == InitSeq /\ [][NextSeq]_vars

\* ------------------------------------------- requests added at any moment
\* Requests of positive volume: two ticks each (5 bbl, then 2 bbl)
DrainFluids ==
    {[type |-> "Cement", volume |-> <<"7">>],
     [type |-> "Spacer", volume |-> <<"7">>]}

\* Add Fluid clicked at any moment, also while a request is being drained
Enqueue ==
    \E newFluid \in DrainFluids :
        HandleAddFluidClick(newFluid.type, newFluid.volume)

NextDrain ==
    \/ Enqueue
    \/ TickInject
    \/ TickFinish

\* The callback of the timer that fires next still has volume to inject and
\* its updater does not throw: TickInject is enabled
InjectEnabled ==
    /\ ~crashed
    /\ drivers # <<>>
    /\ drivers[1].remaining > 0
    /\ ~Updated(drivers[1]).threw

\* A live setInterval timer fires every 80 ms until clearInterval: its
\* callback cannot stay enabled for ever without running.  This is weak
\* fairness of TickFinish and of TickInject; the latter is written out,
\* WF_vars(A) being []<>~(ENABLED <<A>>_vars) \/ []<><<A>>_vars, with
\* InjectEnabled for the enabling condition.  Add Fluid is up to the user: no
\* fairness.
SpecDrain ==
    /\ InitSeq
    /\ [][NextDrain]_vars
    /\ WF_vars(TickFinish)
    /\ ([]<>~InjectEnabled \/ []<><<TickInject>>_vars)

\* ------------------------------------- compression helpers called on their own
ParcelChoices ==
    {Seg(t, v * Micro) : t \in {"Cement", "Spacer"}, v \in {1, 2}}

ParcelSeqs == UNION {[1..n -> ParcelChoices] : n \in 0..MaxLen}

InitCompress ==
    /\ variant = "part_000"
    /\ InitCommon
    /\ arg \in ParcelSeqs
    /\ result = NoResult

Compress(fn, segs) ==
    IF fn = "compressSegmentsTopToBottom"
    THEN compressSegmentsTopToBottom(segs)
    ELSE compressSegmentsBottomToTop(segs)

\* The helper reads its argument and builds a new array of new objects: the
\* argument is left as it was.
CallCompress(fn) ==
    /\ result.calls = 0
    /\ result' = [fn |-> fn, calls |-> 1, input |-> arg,
                  value |-> Compress(fn, arg)]
    /\ UNCHANGED <<arg, variant, geometry, fluidState, fluidsQueue, drivers,
                   crashed, requests, injected, ops, resetAt, editAt,
                   reshapeAt, last>>

\* The same helper applied to what it returned
CallCompressAgain ==
    /\ result.calls = 1
    /\ result' = [fn |-> result.fn, calls |-> 2, input |-> result.value,
                  value |-> Compress(result.fn, result.value)]
    /\ UNCHANGED <<arg, variant, geometry, fluidState, fluidsQueue, drivers,
                   crashed, requests, injected, ops, resetAt, editAt,
                   reshapeAt, last>>

NextCompress ==
    \/ CallCompress("compressSegmentsTopToBottom")
    \/ CallCompress("compressSegmentsBottomToTop")
    \/ CallCompressAgain

SpecCompress == InitCompress /\ [][NextCompress]_vars

\* ------------------------------------ the overflow removal, called on its own
\* One pipe of 1 in inner diameter: lengths that give it a capacity of
\* -1.000718, 0, 1.000718 and 2.999 bbl
OverflowPipes ==
    {[od |-> 2, id |-> 1, length |-> l] : l \in {-314, 0, 314, 941}}

InitOverflow ==
    /\ variant = "part_000"
    /\ InitCommon
    /\ arg \in {[pipe |-> p, dp |-> g] : p \in ParcelSeqs, g \in OverflowPipes}
    /\ result = NoResult

\* The body of the loop over the pipes for one pipe: capacity, used volume,
\* and the removal of the overflow from the bottom
CallPopOverflow ==
    /\ result.calls = 0
    /\ LET dpVol == DpVol(arg.dp)
           used == SumVolumes(arg.pipe)
       IN  result' = IF used <= dpVol + EPS
                     THEN [fn |-> "PopOverflow", calls |-> 1,
                           overflowed |-> FALSE,
                           value |-> [pipe |-> arg.pipe, popped |-> <<>>]]
                     ELSE [fn |-> "PopOverflow", calls |-> 1,
                           overflowed |-> TRUE,
                           value |-> PopOverflow(arg.pipe, used - dpVol, <<>>)]
    /\ UNCHANGED <<arg, variant, geometry, fluidState, fluidsQueue, drivers,
                   crashed, requests, injected, ops, resetAt, editAt,
                   reshapeAt, last>>

NextOverflow == CallPopOverflow

SpecOverflow == InitOverflow /\ [][NextOverflow]_vars

\* ------------------------------------------ the tick updater, called on its own
\* One or two pipes of 5.0992 bbl
AdvanceGeometries ==
    {[i \in 1..n |-> [od |-> 5, id |-> 4, length |-> 100]] : n \in 1..2}

\* step = Math.min(remaining, rate): the rate, or the rest of a request
AdvanceSteps == {Rate, 2 * Micro}

InitAdvance ==
    /\ variant \in {"part_000", "App"}
    /\ geometry \in AdvanceGeometries
    /\ fluidState = EmptyLedger(Len(geometry))
    /\ fluidsQueue = <<>>
    /\ drivers = <<>>
    /\ crashed = FALSE
    /\ requests = <<>>
    /\ injected = <<>>
    /\ ops = 0
    /\ resetAt = -1
    /\ editAt = 0
    /\ reshapeAt = 0
    /\ last = Last("init", 0, 0, Len(geometry), 0, 0)
    /\ NoCall

\* The updater of the engine that runs
Advance(prev, pipes, type, step) ==
    IF variant = "App"
    THEN AppTickUpdater(prev, pipes, type, step)
    ELSE TickUpdater(prev, pipes, type, step)

\* React calls the updater with the current ledger object and, in StrictMode,
\* calls it a second time with the same object; again is what the second call
\* returns, after is the ledger object as the first call left it.
CallAdvance(type, step) ==
    /\ result.calls < MaxTicks
    /\ LET r == Advance(fluidState, geometry, type, step)
           again == Advance(r.after, geometry, type, step)
       IN  /\ arg' = [prev |-> fluidState, type |-> type, step |-> step]
           /\ result' = [fn |-> "advance", calls |-> result.calls + 1,
                         value |-> r.state, after |-> r.after,
                         again |-> again.state]
           /\ fluidState' = r.state
    /\ UNCHANGED <<variant, geometry, fluidsQueue, drivers, crashed, requests,
                   injected, ops, resetAt, editAt, reshapeAt, last>>

NextAdvance ==
    \E type \in {"Cement", "Spacer"}, step \in AdvanceSteps :
        CallAdvance(type, step)

SpecAdvance == InitAdvance /\ [][NextAdvance]_vars

\* ------------------------------------------------------- calculateVolumes
RECURSIVE SumSeq(_)
SumSeq(s) == IF s = <<>> THEN 0 ELSE Head(s) + SumSeq(Tail(s))

\* mutant of OpenHoleVolume: the test L_OH > 0 is missing
OpenHoleVolumeUnguarded(casings, openHole) ==
    IF openHole.size # 0 /\ openHole.depth # 0 /\ Len(casings) # 0
    THEN LET lastCasingBottom == casings[Len(casings)].bottom
             L_OH == openHole.depth - lastCasingBottom
         IN  openHole.size * openHole.size * L_OH * K
    ELSE 0

\* if (openHole?.size && openHole?.depth && casings.length) { ... }
\* An empty text or a missing field is falsy like 0, and is 0 here.
OpenHoleVolume(casings, openHole) ==
    IF openHole.size # 0 /\ openHole.depth # 0 /\ Len(casings) # 0
    THEN LET lastCasingBottom == casings[Len(casings)].bottom
             L_OH == openHole.depth - lastCasingBottom
         IN  IF L_OH > 0 THEN openHole.size * openHole.size * L_OH * K ELSE 0
    ELSE 0

calculateVolumes(g) ==
    LET casings == g.casings
        drillPipes == g.drillPipes
        casingVolumes == [i \in DOMAIN casings |->
            casings[i].id * casings[i].id
                * (casings[i].bottom - casings[i].top) * K]
        wellVolume == SumSeq(casingVolumes)
        openHoleVolume == OpenHoleVolume(casings, g.openHole)
        totalWellVolume == wellVolume + openHoleVolume
        internalStringVolumes == [i \in DOMAIN drillPipes |->
            drillPipes[i].id * drillPipes[i].id * drillPipes[i].length * K]
        lastDP == drillPipes[Len(drillPipes)]
        linerVolume == IF Len(drillPipes) # 0
                       THEN lastDP.id * lastDP.id * lastDP.length * K
                       ELSE 0
        internalStringDisplacement == SumSeq([i \in DOMAIN drillPipes |->
            (drillPipes[i].od * drillPipes[i].od
                 - drillPipes[i].id * drillPipes[i].id)
                * drillPipes[i].length * K])
        annulusVolume == totalWellVolume
            - SumSeq([i \in DOMAIN drillPipes |->
                  drillPipes[i].od * drillPipes[i].od * drillPipes[i].length * K])
    IN  [wellVolume |-> totalWellVolume,
         openHoleVolume |-> openHoleVolume,
         internalStringVolume |-> SumSeq(internalStringVolumes),
         linerVolume |-> linerVolume,
         internalStringDisplacement |-> internalStringDisplacement,
         annulusVolume |-> annulusVolume]

\* Rows the Sidebar can hold: every field is a number input and no handler
\* compares top with bottom or looks at a sign
CasingChoices ==
    {[od |-> 10, id |-> 9, top |-> 0, bottom |-> 100],
     [od |-> 8, id |-> 7, top |-> 0, bottom |-> 200],
     [od |-> 10, id |-> 9, top |-> 100, bottom |-> 50]}

OpenHoleChoices ==
    {[size |-> 0, depth |-> 0],
     [size |-> 8, depth |-> 0],
     [size |-> 8, depth |-> 150],
     [size |-> 8, depth |-> 300]}

PipeChoices ==
    {[od |-> 5, id |-> 4, length |-> 100],
     [od |-> 5, id |-> 4, length |-> -10]}

UpTo(choices, n) == UNION {[1..k -> choices] : k \in 0..n}

GeometryChoices ==
    [casings : UpTo(CasingChoices, MaxEntries),
     openHole : OpenHoleChoices,
     drillPipes : UpTo(PipeChoices, MaxEntries)]

InitVolumes ==
    /\ variant = "part_000"
    /\ InitCommon
    /\ arg \in GeometryChoices
    /\ result = NoResult

\* const volumes = calculateVolumes(geometry)
CallCalculateVolumes ==
    /\ result.calls = 0
    /\ result' = [fn |-> "calculateVolumes", calls |-> 1, input |-> arg,
                  value |-> calculateVolumes(arg)]
    /\ UNCHANGED <<arg, variant, geometry, fluidState, fluidsQueue, drivers,
                   crashed, requests, injected, ops, resetAt, editAt,
                   reshapeAt, last>>

NextVolumes == CallCalculateVolumes

SpecVolumes == InitVolumes /\ [][NextVolumes]_vars

\* --------------------------------------------------------------- pumpFluids
Min(a, b) == IF a <= b THEN a ELSE b

\* Step 1 and Step 2: the loop over the drill pipes that puts what it can of
\* one fluid ("cement" or "mudPush") into each pipe, and stops when nothing
\* remains
RECURSIVE PumpDown(_, _, _, _, _)
PumpDown(dp, drillPipes, i, fluid, remaining) ==
    IF i > Len(drillPipes) THEN [dp |-> dp, remaining |-> remaining]
    ELSE LET dpVolume == drillPipes[i].id * drillPipes[i].id
                             * drillPipes[i].length * K
             availableSpace == dpVolume - dp[i].cement - dp[i].mudPush
             toPump == Min(availableSpace, remaining)
             pumped == [dp EXCEPT ![i][fluid] = @ + toPump]
         IN  IF remaining - toPump <= 0
             THEN [dp |-> pumped, remaining |-> remaining - toPump]
             ELSE PumpDown(pumped, drillPipes, i + 1, fluid,
                           remaining - toPump)

pumpFluids(g, currentFluid, pumpVolumes) ==
    LET drillPipes == g.drillPipes
        n == Len(drillPipes)
        step1 == PumpDown(currentFluid.dp, drillPipes, 1, "cement",
                          pumpVolumes.cement)
        step2 == PumpDown(step1.dp, drillPipes, 1, "mudPush",
                          pumpVolumes.mudPush)
    IN  IF n # 0 /\ step1.remaining <= 0
        THEN LET annulusVolume == calculateVolumes(g).annulusVolume
                 cementInAnnulus ==
                     Min(annulusVolume,
                         currentFluid.annulus.cement + step2.dp[n].cement)
             IN  [dp |-> [step2.dp EXCEPT ![n].cement = @ - cementInAnnulus],
                  annulus |-> [cement |-> cementInAnnulus]]
        ELSE [dp |-> step2.dp, annulus |-> currentFluid.annulus]

\* One casing of 25.8147 bbl with one or two pipes in it (annulus 17.8472 or
\* 9.8797 bbl), and two pipes without any casing (annulus volume negative)
PumpGeometries ==
    {[casings |-> c, openHole |-> [size |-> 0, depth |-> 0],
      drillPipes |-> [i \in 1..n |-> [od |-> 5, id |-> 4, length |-> 100]]] :
        c \in {<<>>, <<[od |-> 10, id |-> 9, top |-> 0, bottom |-> 100]>>},
        n \in 1..2}

\* pumpVolumes: bbl of cement and of mud push
PumpVolumeChoices ==
    {[cement |-> c * Micro, mudPush |-> m * Micro] : c \in {0, 2, 8}, m \in {0, 2}}

\* The fluid state pumpFluids starts from when none is passed
NoFluid(g) ==
    [dp |-> [i \in DOMAIN g.drillPipes |-> [cement |-> 0, mudPush |-> 0]],
     annulus |-> [cement |-> 0]]

InitPump ==
    /\ variant = "part_000"
    /\ InitCommon
    /\ arg \in {[geometry |-> g, currentFluid |-> NoFluid(g),
                 pumpVolumes |-> [cement |-> 0, mudPush |-> 0]] :
                    g \in PumpGeometries}
    /\ result = NoResult

\* fluidState = pumpFluids(geometry, fluidState, pumpVolumes)
CallPumpFluids(pumpVolumes) ==
    /\ result.calls < MaxPumps
    /\ LET currentFluid == IF result.calls = 0 THEN arg.currentFluid
                           ELSE result.value
       IN  /\ arg' = [geometry |-> arg.geometry, currentFluid |-> currentFluid,
                      pumpVolumes |-> pumpVolumes]
           /\ result' = [fn |-> "pumpFluids", calls |-> result.calls + 1,
                         value |-> pumpFluids(arg.geometry, currentFluid,
                                              pumpVolumes)]
    /\ UNCHANGED <<variant, geometry, fluidState, fluidsQueue, drivers,
                   crashed, requests, injected, ops, resetAt, editAt,
                   reshapeAt, last>>

NextPump == \E pumpVolumes \in PumpVolumeChoices : CallPumpFluids(pumpVolumes)

SpecPump == InitPump /\ [][NextPump]_vars

\* ------------------------------------------------------------ observations
RECURSIVE Flatten(_)
Flatten(dpArray) ==
    IF dpArray = <<>> THEN <<>> ELSE Head(dpArray) \o Flatten(Tail(dpArray))

LedgerTotal(fs) == SumVolumes(Flatten(fs.dp)) + SumVolumes(fs.annulus)

LedgerEmpty(fs) == Flatten(fs.dp) = <<>> /\ fs.annulus = <<>>

NoAdjacentSameType(segs) ==
    \A k \in 1..(Len(segs) - 1) : segs[k].type # segs[k + 1].type

Injecting == {i \in DOMAIN drivers : drivers[i].remaining > 0}

InjectedBefore(rid) == IF rid \in DOMAIN injected THEN injected[rid] ELSE 0

\* No reset and no geometry edit since the first request was enqueued
Undisturbed == resetAt = -1 /\ editAt = 0

AllPositive(reqs) == \A r \in DOMAIN reqs : reqs[r].volume > 0

RECURSIVE Reverse(_)
Reverse(s) == IF s = <<>> THEN <<>> ELSE Append(Reverse(Tail(s)), Head(s))

\* The fluid along the flow path of an engine that sees n pipes: pipe 1 top to
\* bottom, ..., pipe n top to bottom, then the annulus from its arrival end
FlowPath(fs, n) ==
    Flatten(SubSeq(fs.dp, 1, IF n <= Len(fs.dp) THEN n ELSE Len(fs.dp)))
        \o Reverse(fs.annulus)

\* ------------------------------------------------------------------ claims

\* C1: single writer.  At most one animateFluid timer is live and still
\* injecting volume into the ledger, in every reachable state.
C1_SingleWriter == Cardinality(Injecting) <= 1

\* C2: queue ordering.  For requests a before b of positive volume, enqueued
\* with no reset and no geometry edit in between or after: no step puts volume
\* of b into the ledger before all of a's volume has been put in, and no step
\* puts volume of a into the ledger once volume of b has been put in.
C2_QueueOrdering ==
    [][(Undisturbed' /\ AllPositive(requests')) =>
         \A a, b \in DOMAIN injected' :
             a < b =>
                 /\ injected'[b] > InjectedBefore(b) =>
                        InjectedBefore(a) >= requests'[a].volume
                 /\ injected'[a] > InjectedBefore(a) =>
                        InjectedBefore(b) = 0]_vars

\* C3: each request is pumped to completion exactly once.  With at least one
\* pipe, positive volumes, no reset and no geometry edit since the first
\* enqueue: once the queue is empty and no timer is live, every request has
\* put exactly its volume into the ledger and the ledger holds their sum.
C3_PumpedOnce ==
    (/\ Undisturbed
     /\ ~crashed
     /\ Len(geometry) >= 1
     /\ fluidsQueue = <<>>
     /\ drivers = <<>>
     /\ AllPositive(requests))
    => /\ \A r \in DOMAIN requests : injected[r] = requests[r].volume
       /\ LedgerTotal(fluidState) = SumVolumes(requests)

\* C4: reset is immediately effective.  From a reset until the next request is
\* enqueued the queue is empty and every pipe sequence and the annulus are
\* empty.
C4_ResetEffective ==
    resetAt = Len(requests) =>
        fluidsQueue = <<>> /\ LedgerEmpty(fluidState)

\* C5: a geometry change that alters the number of pipes discards the requests.
\* From such a change (of a run whose requests all have positive volume) until
\* the next request is enqueued the queue is empty, the ledger has one empty
\* sequence per pipe and an empty annulus.
C5_ReshapeDiscards ==
    (reshapeAt = Len(requests) /\ AllPositive(requests) /\ ~crashed) =>
        /\ fluidsQueue = <<>>
        /\ LedgerEmpty(fluidState)
        /\ Len(fluidState.dp) = Len(geometry)

\* C6: capacity invariant.  After every tick, every pipe of the current
\* geometry holds at most its internal volume id^2 * length * K (plus 1e-9).
C6_Capacity ==
    last.op = "tick" =>
        \A i \in DOMAIN geometry :
            i \in DOMAIN fluidState.dp =>
                SumVolumes(fluidState.dp[i]) <= DpVol(geometry[i]) + EPS

\* C7: compressed ledger.  No pipe sequence and not the annulus sequence holds
\* two adjacent parcels of the same fluid type.
C7_Compressed ==
    /\ \A i \in DOMAIN fluidState.dp : NoAdjacentSameType(fluidState.dp[i])
    /\ NoAdjacentSameType(fluidState.annulus)

\* C8: conservation.  Every tick raises the total volume held in the ledger
\* (all pipes plus annulus) by exactly the step it injects; and as long as
\* nothing has reset the ledger, the ledger holds exactly what was injected.
C8_Conservation ==
    /\ [](reshapeAt = 0 /\ resetAt = -1 =>
              LedgerTotal(fluidState) = SumVolumes([r \in DOMAIN injected |->
                                             [volume |-> injected[r]]]))
    /\ [][last'.op = "tick" =>
              LedgerTotal(fluidState') = LedgerTotal(fluidState) + last'.step]_vars

C8_Witness ==
    /\ last.op = "tick"
    /\ last.step > 0
    /\ last.toPipe >= 1
    /\ last.toAnn >= 1

C10_InvalidNoOp ==
    [][(last'.op = "add" /\ Len(requests') > Len(requests)
            /\ requests'[last'.rid].volume <= 0) =>
          /\ fluidsQueue' = fluidsQueue
          /\ fluidState' = fluidState
          /\ drivers' = drivers]_vars

\* C11: no negative parcels.  In every reachable state every parcel of every
\* pipe sequence and of the annulus has a volume >= 0.
C11_NoNegativeParcels ==
    /\ \A i \in DOMAIN fluidState.dp :
           \A k \in DOMAIN fluidState.dp[i] : fluidState.dp[i][k].volume >= 0
    /\ \A k \in DOMAIN fluidState.annulus : fluidState.annulus[k].volume >= 0

\* The annulus read from its arrival end: App.jsx adds at the front of the
\* array (unshift), part_000 at the end (push)
FromArrivalEnd(ann) == IF variant = "App" THEN ann ELSE Reverse(ann)

\* C14: zero-pipe special case.  With no drill pipe and an idle queue, adding a
\* request of volume V > 0 and type T puts the whole volume into the annulus in
\* that one step: the parcel at the arrival end grows by V when it has type T,
\* otherwise one parcel {T, V} is added at the arrival end; the rest of the
\* annulus and the pipes are left as they were, and nothing caps the volume.
C14_ZeroPipeDeposit ==
    [][(/\ last'.op = "add"
        /\ Len(requests') > Len(requests)
        /\ geometry = <<>>
        /\ fluidsQueue = <<>>
        /\ requests'[last'.rid].volume > 0) =>
          LET T == requests'[last'.rid].type
              V == requests'[last'.rid].volume
              old == FromArrivalEnd(fluidState.annulus)
              new == FromArrivalEnd(fluidState'.annulus)
          IN  /\ fluidState'.dp = fluidState.dp
              /\ fluidsQueue' = <<>>
              /\ new = IF old # <<>> /\ old[1].type = T
                       THEN [old EXCEPT ![1].volume = @ + V]
                       ELSE <<Seg(T, V)>> \o old]_vars

\* C15: transport before the geometry is set.  A request of positive volume
\* added as the very first operation, while the geometry is the initial one
\* (no casing, no open hole, no pipe), leaves the ledger
\* with no pipe and no annulus content, and raises no error.
C15_IdentityLedger ==
    [][(ops = 0 /\ last'.op = "add" /\ requests'[last'.rid].volume > 0) =>
          /\ fluidState' = [dp |-> <<>>, annulus |-> <<>>]
          /\ ~crashed']_vars

\* The queue is idle after exactly the given requests were pumped
PumpedToCompletion(geo, reqs) ==
    /\ geometry = geo
    /\ fluidsQueue = <<>>
    /\ drivers = <<>>
    /\ Len(requests) = Len(reqs)
    /\ \A r \in DOMAIN reqs :
           requests[r].type = reqs[r].type /\ requests[r].volume = reqs[r].volume

\* C12: end-to-end scenario 1.  One pipe of capacity C (19.988864 bbl, the
\* scenario's 20), ledger empty; 25 bbl of Cement pumped to completion in ticks
\* of at most 5 bbl: the pipe holds exactly one Cement parcel of volume C and
\* the annulus exactly one Cement parcel of volume 25 - C.
C12_ScenarioOne ==
    PumpedToCompletion(<<Pipe20>>, <<Seg("Cement", 25 * Micro)>>) =>
        /\ fluidState.dp = << <<Seg("Cement", DpVol(Pipe20))>> >>
        /\ fluidState.annulus = <<Seg("Cement", 25 * Micro - DpVol(Pipe20))>>

C12_Witness ==
    /\ PumpedToCompletion(<<Pipe20>>, <<Seg("Cement", 25 * Micro)>>)
    /\ last.op = "finish"
    /\ injected = <<25 * Micro>>

\* C13 as stated: end-to-end scenario 2.  Two pipes of capacity C each
\* (9.994432 bbl, the scenario's 10); 8 bbl of Cement and then 8 bbl of Spacer
\* pumped to completion: the top pipe is [Spacer 8, Cement C - 8] and the
\* bottom pipe is [Cement 8].
C13_ScenarioTwoAsStated ==
    PumpedToCompletion(<<Pipe10, Pipe10>>,
                       <<Seg("Cement", 8 * Micro), Seg("Spacer", 8 * Micro)>>) =>
        /\ fluidState.dp[1] = <<Seg("Spacer", 8 * Micro),
                                Seg("Cement", DpVol(Pipe10) - 8 * Micro)>>
        /\ fluidState.dp[2] = <<Seg("Cement", 8 * Micro)>>

\* C13 amended: end-to-end scenario 2.  Two pipes of capacity C each; 8 bbl of
\* Cement and then 8 bbl of Spacer pumped to completion: the top pipe is
\* [Spacer 8, Cement C - 8], the bottom pipe holds the rest of the Cement,
\* [Cement 16 - C] (6 bbl for C = 10), and the annulus is empty.
C13_ScenarioTwo ==
    PumpedToCompletion(<<Pipe10, Pipe10>>,
                       <<Seg("Cement", 8 * Micro), Seg("Spacer", 8 * Micro)>>) =>
        /\ fluidState.dp[1] = <<Seg("Spacer", 8 * Micro),
                                Seg("Cement", DpVol(Pipe10) - 8 * Micro)>>
        /\ fluidState.dp[2] = <<Seg("Cement", 16 * Micro - DpVol(Pipe10))>>
        /\ fluidState.annulus = <<>>

C13_Witness ==
    /\ PumpedToCompletion(<<Pipe10, Pipe10>>,
                          <<Seg("Cement", 8 * Micro), Seg("Spacer", 8 * Micro)>>)
    /\ last.op = "finish"
    /\ injected = <<8 * Micro, 8 * Micro>>

\* The fluid types of a sequence, each run of equal neighbours counted once
RECURSIVE RunTypes(_)
RunTypes(segs) ==
    IF segs = <<>> THEN <<>>
    ELSE IF Len(segs) >= 2 /\ segs[1].type = segs[2].type
         THEN RunTypes(Tail(segs))
         ELSE <<segs[1].type>> \o RunTypes(Tail(segs))

\* C16: compression is idempotent and order-preserving.  For either helper,
\* compress(s) has the run types of s, the volume sum of s and no two equal
\* neighbours; compress(compress(s)) = compress(s); and the call leaves s as
\* it was.
C16_CompressIdempotent ==
    /\ result.calls >= 1 =>
           /\ RunTypes(result.value) = RunTypes(result.input)
           /\ SumVolumes(result.value) = SumVolumes(result.input)
           /\ NoAdjacentSameType(result.value)
           /\ Len(result.value) = Len(RunTypes(result.input))
    /\ result.calls = 1 => result.input = arg
    /\ result.calls = 2 => result.value = result.input

\* three parcels, two of them merged, compressed twice
C16_Witness ==
    /\ result.calls = 2
    /\ Len(arg) = 3
    /\ Len(result.value) = 2

\* calculateVolumes has returned
Calculated == result.fn = "calculateVolumes" /\ result.calls = 1

\* id^2 * (bottom - top) * K over the casings
CasingSum(casings) ==
    SumSeq([i \in DOMAIN casings |->
        casings[i].id * casings[i].id * (casings[i].bottom - casings[i].top) * K])

\* od^2 * length * K over the pipes
ExternalStringVolume(pipes) ==
    SumSeq([i \in DOMAIN pipes |->
        pipes[i].od * pipes[i].od * pipes[i].length * K])

\* C17: annulusVolume is the total well volume (casings plus open hole) less
\* the external volume of the string, floored at 0: it is never negative.
C17_AnnulusFloored ==
    Calculated =>
        /\ result.value.annulusVolume
               = Max(CasingSum(arg.casings) + result.value.openHoleVolume
                         - ExternalStringVolume(arg.drillPipes), 0)
        /\ result.value.annulusVolume >= 0

\* C18: the returned wellVolume is the sum over the casings of
\* id^2 * (bottom - top) * K; the open hole is not part of it.
C18_WellVolumeCasingsOnly ==
    Calculated => result.value.wellVolume = CasingSum(arg.casings)

\* C19: openHoleVolume is size^2 * max(depth - lastCasingBottom, 0) * K with
\* lastCasingBottom the bottom of the last casing, 0 when there is no casing,
\* no open hole or depth <= lastCasingBottom, and never negative (casing
\* bottoms and depths are depths below surface, >= 0).
C19_OpenHoleVolume ==
    Calculated =>
        LET casings == arg.casings
            oh == arg.openHole
        IN  /\ result.value.openHoleVolume
                   = IF casings = <<>> THEN 0
                     ELSE oh.size * oh.size
                              * Max(oh.depth - casings[Len(casings)].bottom, 0) * K
            /\ result.value.openHoleVolume >= 0
            /\ (casings = <<>> \/ oh.size = 0 \/ oh.depth = 0
                    \/ oh.depth <= casings[Len(casings)].bottom)
                   => result.value.openHoleVolume = 0

\* an open hole below the last of two casings whose bottoms differ
C19_Witness ==
    /\ Calculated
    /\ Len(arg.casings) = 2
    /\ arg.casings[1].bottom > arg.casings[2].bottom
    /\ result.value.openHoleVolume > 0

WellFormedCasing(c) == c.bottom > c.top /\ c.id > 0

WellFormedPipe(dp) == dp.id > 0 /\ dp.length > 0

\* C20: malformed entries are excluded.  A casing with bottom <= top or id <= 0
\* and a pipe with id <= 0 or length <= 0 contribute 0: the casing part of the
\* well volume is the sum over the well-formed casings, the internal string
\* volume the sum over the well-formed pipes.
C20_MalformedExcluded ==
    Calculated =>
        /\ result.value.wellVolume - result.value.openHoleVolume
               = CasingSum(SelectSeq(arg.casings, WellFormedCasing))
        /\ result.value.internalStringVolume
               = SumSeq([i \in DOMAIN SelectSeq(arg.drillPipes, WellFormedPipe) |->
                     DpVol(SelectSeq(arg.drillPipes, WellFormedPipe)[i])])

\* C21: ledger shape.  In every reachable state the ledger has exactly one
\* parcel sequence per pipe of the current geometry, and the tick that produced
\* the state walked no pipe index that the current geometry does not have.
C21_LedgerShape ==
    /\ Len(fluidState.dp) = Len(geometry)
    /\ last.op \in {"tick", "throw"} => last.n <= Len(geometry)

\* A request is being drained: it is the head of the queue and a timer of
\* animateFluid is live for it
Draining ==
    /\ fluidsQueue # <<>>
    /\ \E i \in DOMAIN drivers : drivers[i].rid = fluidsQueue[1].rid

\* C22: enqueue while draining only appends.  Adding a request while another
\* one is being drained (all requests of positive volume) puts the new request at the tail of the queue and
\* changes nothing else: the ledger is unchanged, the live timers and their
\* remaining volumes are unchanged, and no timer is started.
C22_EnqueueOnlyAppends ==
    [][(/\ last'.op = "add"
        /\ Len(requests') > Len(requests)
        /\ AllPositive(requests')
        /\ Draining) =>
          /\ fluidsQueue' = Append(fluidsQueue, requests'[last'.rid])
          /\ fluidState' = fluidState
          /\ drivers' = drivers]_vars

\* C28: the queue head tracks the active request.  With no reset and no
\* geometry edit, and requests of positive volume only: whenever a timer of
\* request r is live and still has volume to inject, the queue is not empty
\* and its head is r.
C28_HeadIsActive ==
    (Undisturbed /\ AllPositive(requests)) =>
        \A i \in Injecting :
            /\ fluidsQueue # <<>>
            /\ fluidsQueue[1].rid = drivers[i].rid

\* C26: a geometry update that keeps the number of pipes (here: editing the
\* length of a pipe) leaves the ledger and the queue unchanged, and neither
\* starts nor removes a timer nor changes the remaining volume of one.
C26_EditKeepsDraining ==
    [][(last'.op = "updateDP" /\ AllPositive(requests)) =>
          /\ fluidState' = fluidState
          /\ fluidsQueue' = fluidsQueue
          /\ drivers' = drivers]_vars

\* The volume of fluid of one type held in a sequence of parcels, in a ledger
TypeVolume(segs, type) ==
    SumVolumes(SelectSeq(segs, LAMBDA seg : seg.type = type))

TypeTotal(fs, type) ==
    TypeVolume(Flatten(fs.dp), type) + TypeVolume(fs.annulus, type)

\* C29: src/src/App.jsx records what overflows from the last pipe into the
\* annulus with the type of the parcels that left the pipe.  With no reset and
\* no geometry edit since the first request, a tick raises the ledger's volume
\* of the pumped type by its step and leaves the volume of every other type
\* as it was.
C29_AnnulusKeepsType ==
    [][(last'.op = "tick" /\ variant = "App" /\ Undisturbed) =>
         \A r \in DOMAIN requests :
             TypeTotal(fluidState', requests[r].type)
                 = TypeTotal(fluidState, requests[r].type)
                     + (IF requests[r].type = requests[last'.rid].type
                        THEN last'.step ELSE 0)]_vars

\* C25: overflow is taken from the bottom with a split.  When a pipe holds
\* more than its capacity: what remains is a top prefix of what it held, with
\* at most the last remaining parcel reduced in volume; the removed volume is
\* used - capacity whenever the pipe held that much; the parcels are removed
\* from the bottom upwards, each one whole unless its volume exceeds the
\* overflow still to be removed, in which case it is split and the removal ends.
C25_BottomSplit ==
    (result.fn = "PopOverflow" /\ result.overflowed) =>
        LET pipe == arg.pipe
            n == Len(pipe)
            used == SumVolumes(pipe)
            overflow == used - DpVol(arg.dp)
            kept == result.value.pipe
            popped == result.value.popped
            L == Len(kept)
            Before(j) == SumVolumes(SubSeq(popped, 1, j - 1))
        IN  /\ L <= n
            /\ \A k \in 1..(L - 1) : kept[k] = pipe[k]
            /\ L >= 1 => /\ kept[L].type = pipe[L].type
                         /\ kept[L].volume <= pipe[L].volume
            /\ SumVolumes(popped) = used - SumVolumes(kept)
            /\ used >= overflow => SumVolumes(popped) = overflow
            /\ \A j \in DOMAIN popped :
                   LET src == pipe[n + 1 - j]
                       rem == overflow - Before(j)
                   IN  /\ popped[j].type = src.type
                       /\ IF src.volume > rem + EPS
                          THEN /\ popped[j].volume = rem
                               /\ j = Len(popped)
                               /\ L = n + 1 - j
                               /\ kept[L].volume = src.volume - rem
                          ELSE /\ popped[j].volume = src.volume
                               /\ L < n + 1 - j

\* two parcels were removed whole and a third one was split
C25_Witness ==
    /\ result.fn = "PopOverflow"
    /\ result.overflowed
    /\ Len(result.value.popped) = 3
    /\ Len(result.value.pipe) = Len(arg.pipe) - 2
    /\ result.value.popped[1].type # result.value.popped[2].type

\* What lies downstream of pipe i: the next pipe, or the annulus after the
\* last pipe
Downstream(fs, i) == IF i < Len(fs.dp) THEN fs.dp[i + 1] ELSE fs.annulus

\* C27: plug flow.  With at least one pipe and a geometry that was not edited
\* since the first request (so that pumping started on an empty ledger), in
\* every state: if the segment downstream of pipe i holds any fluid then
\* pipe i is full, its parcels summing to at least its capacity.
C27_PlugFlow ==
    (editAt = 0 /\ Len(geometry) >= 1) =>
        \A i \in DOMAIN geometry :
            Downstream(fluidState, i) # <<>> =>
                SumVolumes(fluidState.dp[i]) >= DpVol(geometry[i]) - EPS

\* a tick pushed fluid through two full pipes into the annulus
C27_Witness ==
    /\ editAt = 0
    /\ Len(geometry) = 2
    /\ last.op = "tick"
    /\ last.toPipe >= 1
    /\ last.toAnn >= 1
    /\ fluidState.annulus # <<>>

\* C24: advance is pure.  A tick leaves the ledger object it was given as it
\* was, and the same tick applied a second time to the same ledger object
\* returns an equal ledger.
C24_AdvancePure ==
    result.fn = "advance" =>
        /\ result.after = arg.prev
        /\ result.again = result.value

\* The controller is Idle: nothing queued and no timer live
Idle == fluidsQueue = <<>> /\ drivers = <<>>

\* C23: drain progress and return to Idle.  With a fixed geometry and requests
\* of positive volume added at any moment, under fair scheduling of the
\* timers: every tick lowers the remaining volume of its request by
\* min(remaining, 5) > 0; when a timer completes, the request it pumped is the
\* head of the queue and is the one popped; and the controller is Idle again
\* and again, for good once no more request is added.
C23_DrainToIdle ==
    /\ [][last'.op = "tick" =>
             /\ last'.step > 0
             /\ last'.step = Step(drivers[1])
             /\ drivers'[Len(drivers')].remaining
                    = drivers[1].remaining - last'.step]_vars
    /\ [][last'.op = "finish" =>
             /\ fluidsQueue # <<>>
             /\ fluidsQueue[1].rid = last'.rid
             /\ fluidsQueue' = Tail(fluidsQueue)]_vars
    /\ []<>Idle

\* No entry of a pumpFluids fluid state is negative
NonNegativeFluid(f) ==
    /\ \A i \in DOMAIN f.dp : f.dp[i].cement >= 0 /\ f.dp[i].mudPush >= 0
    /\ f.annulus.cement >= 0

\* C30: pumpFluids keeps volumes non-negative.  For a geometry whose annulus
\* volume is >= 0, a current state without negative entries and pumpVolumes
\* >= 0: the state returned has no negative entry, and the cement that the call
\* took out of the last pipe is the cement it added to the annulus.
C30_PumpNonNegative ==
    (/\ result.fn = "pumpFluids"
     /\ calculateVolumes(arg.geometry).annulusVolume >= 0
     /\ NonNegativeFluid(arg.currentFluid)) =>
        LET n == Len(arg.geometry.drillPipes)
            step1 == PumpDown(arg.currentFluid.dp, arg.geometry.drillPipes, 1,
                              "cement", arg.pumpVolumes.cement)
        IN  /\ NonNegativeFluid(result.value)
            /\ step1.dp[n].cement - result.value.dp[n].cement
                   = result.value.annulus.cement
                         - arg.currentFluid.annulus.cement

====
